---- MODULE Spec2Model ----
(***************************************************************************)
(* Model of pipelines/example/pipeline.py: the five components             *)
(* convert_document, generate_plan, chunk_text, embed_and_store and        *)
(* test_query, and the task graph that ingest_pipeline wires between them. *)
(*                                                                         *)
(* Each component is a sequential process whose position is pc[stage].     *)
(* Every HTTP call is two steps, the request being sent and its response   *)
(* (or a transport failure) being handled, so that "in flight" is a state. *)
(* The collaborating services are the environment: what they answer is     *)
(* drawn from small sets in the receiving action.                          *)
(***************************************************************************)
EXTENDS Integers, Sequences, FiniteSets, TLC

(***************************************************************************)
(* Program constants.                                                      *)
(***************************************************************************)
max_wait == 300
poll_interval == 5
poll_timeout == 10
batch_size == 50

(***************************************************************************)
(* Bounds of the model.                                                    *)
(***************************************************************************)
\* Largest number of chunks the chunker service answers with.
MaxChunks == 101
\* Largest number of hits the vector gateway answers a search with.
MaxHits == 7

(***************************************************************************)
(* Python values: None, str (a sequence of character codes), int, and the  *)
(* absence of a key in a JSON object.                                      *)
(***************************************************************************)
PyNone == [t |-> "None", s |-> <<>>]
Absent == [t |-> "absent", s |-> <<>>]
PyStr(chars) == [t |-> "str", s |-> chars]
PyInt(n) == [t |-> "int", s |-> <<n>>]

\* dict.get(key, default): the default only when the key is missing.
Get(v, default) == IF v = Absent THEN default ELSE v

\* Python truthiness of None, str and int.
Truthy(v) ==
    CASE v.t = "str" -> v.s # <<>>
      [] v.t = "int" -> v.s # <<0>>
      [] OTHER -> FALSE

\* a or b
PyOr(a, b) == IF Truthy(a) THEN a ELSE b

(***************************************************************************)
(* The task graph of ingest_pipeline.                                      *)
(***************************************************************************)
Stages == {"convert", "plan", "chunk", "store", "query"}

\* Slip: the explicit edge query_task.after(store_task) is left out.
DepsWithoutAfter ==
    [convert |-> {},
     plan    |-> {"convert"},
     chunk   |-> {"convert", "plan"},
     store   |-> {"chunk"},
     query   |-> {}]

\* Slip: chunk_text is given a plan that is not plan_task's output.
DepsChunkWithoutPlan ==
    [convert |-> {},
     plan    |-> {"convert"},
     chunk   |-> {"convert"},
     store   |-> {"chunk"},
     query   |-> {"store"}]

\* Slip: the explicit edge is put on the wrong task, query_task.after(query_task).
DepsQueryAfterItself ==
    [convert |-> {},
     plan    |-> {"convert"},
     chunk   |-> {"convert", "plan"},
     store   |-> {"chunk"},
     query   |-> {"query"}]

\* A task with every consumed output wired to its producer, and the one
\* explicit edge query_task.after(store_task).
Deps ==
    [convert |-> {},
     plan    |-> {"convert"},
     chunk   |-> {"convert", "plan"},
     store   |-> {"chunk"},
     query   |-> {"store"}]

\* The first position of each component.
Entry ==
    [convert |-> "download",
     plan    |-> "plan",
     chunk   |-> "chunk",
     store   |-> "prepare",
     query   |-> "search"]

Kinds == {"download", "submit", "status", "result", "plan", "chunk", "upsert", "search"}

\* The stage that issues each kind of request.
StageOf ==
    [download |-> "convert", submit |-> "convert", status |-> "convert",
     result |-> "convert", plan |-> "plan", chunk |-> "chunk",
     upsert |-> "store", search |-> "query"]

\* The position in which a request of the kind awaits its response.
AwaitPos ==
    [download |-> "await_download", submit |-> "await_submit",
     status |-> "await_status", result |-> "await_result",
     plan |-> "await_plan", chunk |-> "await_chunk",
     upsert |-> "await_upsert", search |-> "await_search"]

\* HTTP status codes the services answer with; httpx's is_success is 2xx.
HttpCodes == {200, 500}
IsSuccess(code) == code \in 200..299

\* No response arrived: the transport failed (refused, reset, timed out).
NoResponse(kind) == [kind |-> kind, code |-> 0, read |-> FALSE]
\* A response; read says whether the code went on to interpret its body.
Response(kind, code, read) == [kind |-> kind, code |-> code, read |-> read]

VARIABLES
    pc,             \* pc[s]: "pending", a position in s, "succeeded" or "failed"
    err,            \* err[s]: the exception that ended stage s, or "none"
    reqs,           \* reqs[k]: requests of kind k issued in this run (status polls: nStatusReq)
    resp,           \* the last HTTP exchange that ended
    elapsed,        \* convert_document: time.time() - start
    status,         \* convert_document: status
    nStatusReq,     \* convert_document: status requests issued by the wait loop
    nStillRunning,  \* convert_document: statuses read that were neither success nor failure
    readNon2xx,     \* convert_document: a status was read from a response that was not 2xx
    result,         \* convert_document: result
    mdArtifact,     \* the output_markdown artifact
    convOut,        \* convert_task.outputs["output"]
    planOut,        \* plan_task.output
    planSent,       \* body of the request to the plan service
    chunkSent,      \* body of the request to the chunker service
    chunksArtifact, \* the output_chunks artifact (written exactly when chunkOut is set)
    chunkOut,       \* chunk_task.output
    documents,      \* embed_and_store: documents
    i,              \* embed_and_store: i
    total_inserted, \* embed_and_store: total_inserted
    sent,           \* the upsert batches sent so far, in request order
    accepted,       \* the upsert requests the gateway has answered 2xx
    reportedTotal,  \* sum over the accepted batches of the count in the response,
                    \* a response without a count standing for the batch's documents
    anyCount,       \* some accepted batch's response carried a count
    storeOut,       \* store_task.output
    searchSent,     \* body of the request to the search endpoint
    hits,           \* test_query: hits
    queryOut        \* query_task.output: the number of hit entries in the report

vars == <<pc, err, reqs, resp, elapsed, status, nStatusReq, nStillRunning, readNon2xx, result, mdArtifact,
          convOut, planOut, planSent, chunkSent, chunksArtifact, chunkOut,
          documents, i, total_inserted, sent, accepted, reportedTotal, anyCount,
          storeOut, searchSent, hits, queryOut>>

convertVars == <<elapsed, status, nStatusReq, nStillRunning, readNon2xx, result, mdArtifact, convOut>>
planVars == <<planOut, planSent>>
chunkVars == <<chunkSent, chunksArtifact, chunkOut>>
storeVars == <<documents, i, total_inserted, sent, accepted, reportedTotal, anyCount, storeOut>>
queryVars == <<searchSent, hits, queryOut>>

Unset == [t |-> "unset", s |-> <<>>]
NoStatus == "none"

Init ==
    /\ pc = [s \in Stages |-> "pending"]
    /\ err = [s \in Stages |-> "none"]
    /\ reqs = [k \in Kinds \ {"status"} |-> 0]
    /\ resp = NoResponse("none")
    /\ elapsed = 0
    /\ status = NoStatus
    /\ nStatusReq = 0
    /\ nStillRunning = 0
    /\ readNon2xx = FALSE
    /\ result = Unset
    /\ mdArtifact = Unset
    /\ convOut = Unset
    /\ planOut = Unset
    /\ planSent = Unset
    /\ chunkSent = Unset
    /\ chunksArtifact = <<>>
    /\ chunkOut = Unset
    /\ documents = <<>>
    /\ i = 0
    /\ total_inserted = 0
    /\ sent = <<>>
    /\ accepted = 0
    /\ reportedTotal = 0
    /\ anyCount = FALSE
    /\ storeOut = Unset
    /\ searchSent = Unset
    /\ hits = <<>>
    /\ queryOut = Unset

(***************************************************************************)
(* Steps shared by all components.                                         *)
(***************************************************************************)
Running(s) == pc[s] \notin {"pending", "succeeded", "failed"}

\* Slip: a task starts once the tasks it depends on have ended, failed or not.
CanStartAfterEnded(s) ==
    pc[s] = "pending" /\ \A d \in Deps[s] : pc[d] \in {"succeeded", "failed"}

\* The backend starts a task once every task it depends on has succeeded.
CanStart(s) == pc[s] = "pending" /\ \A d \in Deps[s] : pc[d] = "succeeded"

StartStage(s) ==
    /\ CanStart(s)
    /\ pc' = [pc EXCEPT ![s] = Entry[s]]
    /\ UNCHANGED <<err, reqs, resp, convertVars, planVars, chunkVars, storeVars, queryVars>>

\* An exception leaves the component: the task fails.
Raise(s, e) ==
    /\ pc' = [pc EXCEPT ![s] = "failed"]
    /\ err' = [err EXCEPT ![s] = e]

Goto(s, pos) ==
    /\ pc' = [pc EXCEPT ![s] = pos]
    /\ UNCHANGED err

\* httpx.get / httpx.post: the request leaves.
Send(kind, from) ==
    /\ pc[StageOf[kind]] = from
    /\ Goto(StageOf[kind], AwaitPos[kind])
    /\ reqs' = [reqs EXCEPT ![kind] = @ + 1]

\* The position from which a request of the kind is sent.
SendPos ==
    [download |-> "download", submit |-> "submit", status |-> "loop",
     result |-> "fetch", plan |-> "plan", chunk |-> "chunk",
     upsert |-> "upsert_loop", search |-> "search"]

\* Slip: a request whose transport failed is sent again.
TransportRetries(kind) ==
    /\ Goto(StageOf[kind], SendPos[kind])
    /\ resp' = NoResponse(kind)

\* The transport fails: httpx raises and the exception leaves the component.
TransportFails(kind) ==
    /\ Raise(StageOf[kind], "TransportError")
    /\ resp' = NoResponse(kind)

\* response.raise_for_status(): a response that is not 2xx raises.
RaisesForStatus(kind, code) ==
    /\ ~IsSuccess(code)
    /\ Raise(StageOf[kind], "RemoteServiceError")
    /\ resp' = Response(kind, code, FALSE)

(***************************************************************************)
(* convert_document                                                        *)
(***************************************************************************)
otherVars == <<planVars, chunkVars, storeVars, queryVars>>

\* httpx.get(pdf_url, follow_redirects=True, timeout=60.0)
SendDownload ==
    /\ Send("download", "download")
    /\ UNCHANGED <<resp, convertVars, otherVars>>

\* pdf_response.raise_for_status(); pdf_content = pdf_response.content
RecvDownload ==
    /\ pc["convert"] = "await_download"
    /\ \/ TransportFails("download")
       \/ \E code \in HttpCodes :
            \/ RaisesForStatus("download", code)
            \/ /\ IsSuccess(code)
               /\ Goto("convert", "submit")
               /\ resp' = Response("download", code, TRUE)
    /\ UNCHANGED <<reqs, convertVars, otherVars>>

\* httpx.post(f"{docling_url}/v1/convert/file/async", ...)
SendSubmit ==
    /\ Send("submit", "submit")
    /\ UNCHANGED <<resp, convertVars, otherVars>>

\* response.raise_for_status(); task_id = response.json()["task_id"];
\* max_wait = 300; start = time.time()
RecvSubmit ==
    /\ pc["convert"] = "await_submit"
    /\ \/ TransportFails("submit")
       \/ \E code \in HttpCodes :
            \/ RaisesForStatus("submit", code)
            \/ /\ IsSuccess(code)
               /\ resp' = Response("submit", code, TRUE)
               /\ \E has_task_id \in BOOLEAN :
                    IF has_task_id
                    THEN Goto("convert", "loop")
                    ELSE Raise("convert", "KeyError")
    /\ UNCHANGED <<reqs, convertVars, otherVars>>

\* Slip: the loop test lets an iteration start at exactly max_wait.
WithinBudgetInclusive(t) == t <= max_wait

\* The loop test: while time.time() - start < max_wait
WithinBudget(t) == t < max_wait

\* Slip: each iteration issues its status request twice.
PollStatusTwice ==
    /\ pc["convert"] = "loop"
    /\ WithinBudget(elapsed)
    /\ Goto("convert", "await_status")
    /\ nStatusReq' = nStatusReq + 2
    /\ UNCHANGED <<reqs, resp, elapsed, status, nStillRunning, readNon2xx, result, mdArtifact, convOut, otherVars>>

\* Loop test true: the status request of this iteration leaves.
PollStatus ==
    /\ pc["convert"] = "loop"
    /\ WithinBudget(elapsed)
    /\ Goto("convert", "await_status")
    /\ nStatusReq' = nStatusReq + 1
    /\ UNCHANGED <<reqs, resp, elapsed, status, nStillRunning, readNon2xx, result, mdArtifact, convOut, otherVars>>

\* Slip: the budget is tested again after the loop, before the result is fetched.
PollTimeoutAfterPoll ==
    /\ pc["convert"] \in {"loop", "fetch"}
    /\ ~WithinBudget(elapsed)
    /\ Raise("convert", "ConversionTimeout")
    /\ UNCHANGED <<reqs, resp, convertVars, otherVars>>

\* Loop test false: the else branch of the while raises.
PollTimeout ==
    /\ pc["convert"] = "loop"
    /\ ~WithinBudget(elapsed)
    /\ Raise("convert", "ConversionTimeout")
    /\ UNCHANGED <<reqs, resp, convertVars, otherVars>>

\* What the body of a status response can be: a JSON object whose task_status
\* is one of these strings, a JSON object without task_status, or no JSON.
StatusValues == {"pending", "started", "success", "failure"}
StatusBodies == StatusValues \cup {"no_field", "not_json"}

\* The statuses that end the wait loop.
TerminalStatuses == {"success", "failure"}

\* status_response.json().get("task_status", "unknown")
ReadStatus(body) == IF body = "no_field" THEN "unknown" ELSE body

\* Slip: "failure" is not recognised and the loop goes on.
AfterStatusFailureIgnored(st) ==
    CASE st = "success" -> "fetch"
      [] OTHER -> "sleep"

\* Slip: any status that is not "failure" ends the wait.
AfterStatusAnyDone(st) ==
    CASE st = "failure" -> "failed"
      [] OTHER -> "fetch"

\* Slip: only "pending" keeps the loop going, any other status raises.
AfterStatusStrict(st) ==
    CASE st = "success" -> "fetch"
      [] st = "pending" -> "sleep"
      [] OTHER -> "failed"

\* The branch taken on a status: "success" breaks out of the loop, "failure"
\* raises, anything else sleeps.
AfterStatus(st) ==
    CASE st = "success" -> "fetch"
      [] st = "failure" -> "failed"
      [] OTHER -> "sleep"

\* How long a status request can take, in seconds: no time at all, or the
\* whole of its timeout (timeout=10.0).
PollDelays == {0, poll_timeout}

\* The status response arrives after d seconds (no raise_for_status here).
RecvStatus ==
    /\ pc["convert"] = "await_status"
    /\ \E d \in PollDelays :
        /\ elapsed' = elapsed + d
        /\ \/ /\ TransportFails("status")
              /\ UNCHANGED <<status, nStillRunning, readNon2xx>>
           \/ \E code \in HttpCodes, body \in StatusBodies :
                IF body = "not_json"
                THEN /\ Raise("convert", "JSONDecodeError")
                     /\ resp' = Response("status", code, FALSE)
                     /\ UNCHANGED <<status, nStillRunning, readNon2xx>>
                ELSE /\ resp' = Response("status", code, TRUE)
                     /\ status' = ReadStatus(body)
                     /\ nStillRunning' = IF status' \in TerminalStatuses
                                         THEN nStillRunning
                                         ELSE nStillRunning + 1
                     /\ readNon2xx' = (readNon2xx \/ ~IsSuccess(code))
                     /\ IF AfterStatus(status') = "failed"
                        THEN Raise("convert", "ConversionFailed")
                        ELSE Goto("convert", AfterStatus(status'))
    /\ UNCHANGED <<reqs, nStatusReq, result, mdArtifact, convOut, otherVars>>

\* time.sleep(5)
Sleep ==
    /\ pc["convert"] = "sleep"
    /\ elapsed' = elapsed + poll_interval
    /\ Goto("convert", "loop")
    /\ UNCHANGED <<reqs, resp, status, nStatusReq, nStillRunning, readNon2xx, result, mdArtifact, convOut, otherVars>>

\* httpx.get(f"{docling_url}/v1/result/{task_id}", timeout=30.0)
SendResult ==
    /\ Send("result", "fetch")
    /\ UNCHANGED <<resp, convertVars, otherVars>>

\* The result payload: a JSON object with these keys (each possibly missing),
\* or JSON that is no object.
Payload(isdict, md, markdown, content, document, document_md) ==
    [isdict |-> isdict, md |-> md, markdown |-> markdown, content |-> content,
     document |-> document, document_md |-> document_md]

EmptyPayload == Payload(TRUE, Absent, Absent, Absent, "absent", Absent)

\* The payloads the conversion service answers with in a run.
ResultPayloads ==
    { EmptyPayload,
      [EmptyPayload EXCEPT !.md = PyStr(<<1>>)],
      [EmptyPayload EXCEPT !.md = PyStr(<<>>), !.markdown = PyStr(<<1>>)],
      [EmptyPayload EXCEPT !.content = PyNone],
      [EmptyPayload EXCEPT !.document = "dict", !.document_md = PyStr(<<4>>)],
      [EmptyPayload EXCEPT !.document = "None"],
      [EmptyPayload EXCEPT !.isdict = FALSE] }

\* str(result) of a payload that is no JSON object.
StrOf(r) == PyStr(<<9>>)

\* Lines 92-97: the value bound to markdown, or the exception raised.
ExtractMarkdown(r) ==
    IF r.isdict
    THEN LET first == PyOr(PyOr(Get(r.md, PyNone), Get(r.markdown, PyNone)),
                           Get(r.content, PyStr(<<>>)))
         IN  IF ~Truthy(first) /\ r.document # "absent"
             THEN IF r.document = "dict"
                  THEN [err |-> "none", value |-> Get(r.document_md, PyStr(<<>>))]
                  ELSE [err |-> "AttributeError", value |-> PyNone]
             ELSE [err |-> "none", value |-> first]
    ELSE [err |-> "none", value |-> StrOf(r)]

\* result_response.raise_for_status(); result = result_response.json()
RecvResult ==
    /\ pc["convert"] = "await_result"
    /\ \/ /\ TransportFails("result")
          /\ UNCHANGED result
       \/ \E code \in HttpCodes :
            \/ /\ RaisesForStatus("result", code)
               /\ UNCHANGED result
            \/ /\ IsSuccess(code)
               /\ resp' = Response("result", code, TRUE)
               /\ \E r \in ResultPayloads : result' = r
               /\ Goto("convert", "extract")
    /\ UNCHANGED <<reqs, elapsed, status, nStatusReq, nStillRunning, readNon2xx, mdArtifact, convOut, otherVars>>

\* Lines 92-105: extract the markdown, print its length, write the artifact
\* and return; the locals of the call end with it.
ExtractAndReturn ==
    /\ pc["convert"] = "extract"
    /\ LET x == ExtractMarkdown(result)
       IN  IF x.err # "none"
           THEN /\ Raise("convert", x.err)
                /\ UNCHANGED convertVars
           ELSE IF x.value.t # "str"
           THEN \* len(markdown) of a value that is no str
                /\ Raise("convert", "TypeError")
                /\ UNCHANGED convertVars
           ELSE /\ Goto("convert", "succeeded")
                /\ mdArtifact' = x.value
                /\ convOut' = x.value
                /\ elapsed' = 0
                /\ status' = NoStatus
                /\ nStatusReq' = 0
                /\ nStillRunning' = 0
                /\ readNon2xx' = FALSE
                /\ result' = Unset
    /\ UNCHANGED <<reqs, resp, otherVars>>

ConvertStep ==
    \/ SendDownload \/ RecvDownload \/ SendSubmit \/ RecvSubmit
    \/ PollStatus \/ PollTimeout \/ RecvStatus \/ Sleep
    \/ SendResult \/ RecvResult \/ ExtractAndReturn

(***************************************************************************)
(* generate_plan                                                           *)
(***************************************************************************)
sample_limit == 8000

\* Slip: the slice keeps one character more than the limit.
SampleOneTooMany(text) ==
    IF Len(text.s) > sample_limit
    THEN PyStr(SubSeq(text.s, 1, sample_limit + 1))
    ELSE text

\* sample = markdown_text[:8000] if len(markdown_text) > 8000 else markdown_text
Sample(text) ==
    IF Len(text.s) > sample_limit
    THEN PyStr(SubSeq(text.s, 1, sample_limit))
    ELSE text

\* A plan is an opaque JSON object; {} is the default of result.get("plan", {}).
PyDict(id) == [t |-> "dict", s |-> id]
EmptyDict == PyDict(<<>>)
PlanValues == {Absent, PyDict(<<1>>)}

\* httpx.post(f"{plan_url}/plan", json={"text": sample, "meta": ...})
SendPlan ==
    /\ Send("plan", "plan")
    /\ planSent' = [text |-> Sample(convOut)]
    /\ UNCHANGED <<resp, planOut, convertVars, chunkVars, storeVars, queryVars>>

\* response.raise_for_status(); plan = response.json().get("plan", {}); return plan
RecvPlan ==
    /\ pc["plan"] = "await_plan"
    /\ \/ /\ TransportFails("plan")
          /\ UNCHANGED planOut
       \/ \E code \in HttpCodes :
            \/ /\ RaisesForStatus("plan", code)
               /\ UNCHANGED planOut
            \/ /\ IsSuccess(code)
               /\ resp' = Response("plan", code, TRUE)
               /\ \E p \in PlanValues : planOut' = Get(p, EmptyDict)
               /\ Goto("plan", "succeeded")
    /\ UNCHANGED <<reqs, planSent, convertVars, chunkVars, storeVars, queryVars>>

PlanStep == SendPlan \/ RecvPlan

(***************************************************************************)
(* chunk_text                                                              *)
(***************************************************************************)
\* The k-th chunk of the chunker's answer. A bare chunk has only its text:
\* every other key is missing.
ChunkAt(k, bare) ==
    IF bare
    THEN [chunk_id |-> Absent, text |-> PyStr(<<k>>), file_name |-> Absent,
          chunk_index |-> Absent, created_at |-> Absent]
    ELSE [chunk_id |-> PyStr(<<k>>), text |-> PyStr(<<k, k>>),
          file_name |-> PyStr(<<0>>), chunk_index |-> PyInt(k - 1),
          created_at |-> PyStr(<<7>>)]

\* A chunk list of n chunks, every third of them bare.
ChunkList(n) == [k \in 1..n |-> ChunkAt(k, k % 3 = 0)]

\* Slip: the chunker is sent the sample the plan service was sent.
SendChunkSample ==
    /\ Send("chunk", "chunk")
    /\ chunkSent' = [text |-> Sample(convOut), plan |-> planOut]
    /\ UNCHANGED <<resp, chunksArtifact, chunkOut, convertVars, planVars, storeVars, queryVars>>

\* httpx.post(f"{chunker_url}/chunk", json={"text": markdown_text, "plan": plan, ...})
SendChunk ==
    /\ Send("chunk", "chunk")
    /\ chunkSent' = [text |-> convOut, plan |-> planOut]
    /\ UNCHANGED <<resp, chunksArtifact, chunkOut, convertVars, planVars, storeVars, queryVars>>

\* response.raise_for_status(); chunks = response.json();
\* json.dump(chunks, f); return len(chunks)
RecvChunk ==
    /\ pc["chunk"] = "await_chunk"
    /\ \/ /\ TransportFails("chunk")
          /\ UNCHANGED <<chunksArtifact, chunkOut>>
       \/ \E code \in HttpCodes :
            \/ /\ RaisesForStatus("chunk", code)
               /\ UNCHANGED <<chunksArtifact, chunkOut>>
            \/ /\ IsSuccess(code)
               /\ resp' = Response("chunk", code, TRUE)
               /\ \E n \in 0..MaxChunks :
                    /\ chunksArtifact' = ChunkList(n)
                    /\ chunkOut' = PyInt(n)
               /\ Goto("chunk", "succeeded")
    /\ UNCHANGED <<reqs, chunkSent, convertVars, planVars, storeVars, queryVars>>

ChunkStep == SendChunk \/ RecvChunk

(***************************************************************************)
(* embed_and_store                                                         *)
(***************************************************************************)
\* Lines 209-217: the document built from one chunk.
ToDocument(chunk) ==
    [doc_id |-> Get(chunk.chunk_id, PyNone),
     text |-> Get(chunk.text, PyStr(<<>>)),
     metadata |-> [file_name |-> Get(chunk.file_name, PyStr(<<>>)),
                   chunk_index |-> Get(chunk.chunk_index, PyInt(0)),
                   created_at |-> Get(chunk.created_at, PyStr(<<>>))]]

\* Lines 207-217: documents, in the order of the chunks.
BuildDocuments(chunks) == [k \in 1..Len(chunks) |-> ToDocument(chunks[k])]

Min(a, b) == IF a < b THEN a ELSE b

\* documents[lo : hi]
Slice(seq, lo, hi) == SubSeq(seq, lo + 1, Min(hi, Len(seq)))

\* Slip: the slice runs one document into the next batch.
BatchOneTooLong(docs, at) == Slice(docs, at, at + batch_size + 1)

\* batch = documents[i : i + batch_size]
Batch(docs, at) == Slice(docs, at, at + batch_size)

\* Lines 201-221: read the chunks, build the documents, enter the loop.
Prepare ==
    /\ pc["store"] = "prepare"
    /\ documents' = BuildDocuments(chunksArtifact)
    /\ i' = 0
    /\ total_inserted' = 0
    /\ Goto("store", "upsert_loop")
    /\ UNCHANGED <<reqs, resp, sent, accepted, reportedTotal, anyCount, storeOut,
                   convertVars, planVars, chunkVars, queryVars>>

\* Slip: the next batch leaves without waiting for the response to the last.
SendUpsertEager ==
    /\ pc["store"] \in {"upsert_loop", "await_upsert"}
    /\ batch_size * Len(sent) < Len(documents)
    /\ Goto("store", "await_upsert")
    /\ reqs' = [reqs EXCEPT !["upsert"] = @ + 1]
    /\ sent' = Append(sent, Batch(documents, batch_size * Len(sent)))
    /\ UNCHANGED <<resp, documents, i, total_inserted, accepted, reportedTotal, anyCount,
                   storeOut, convertVars, planVars, chunkVars, queryVars>>

\* for i in range(0, len(documents), batch_size): the next batch leaves.
SendUpsert ==
    /\ i < Len(documents)
    /\ Send("upsert", "upsert_loop")
    /\ sent' = Append(sent, Batch(documents, i))
    /\ UNCHANGED <<resp, documents, i, total_inserted, accepted, reportedTotal, anyCount,
                   storeOut, convertVars, planVars, chunkVars, queryVars>>

\* What the gateway reports for a batch of n documents: no count, n, or fewer.
InsertedValues(n) == {Absent, PyInt(n), PyInt(n - 1)}

\* Slip: a response without a count is taken to have inserted a full batch.
InsertedDefaultFullBatch(reported, batch) == Get(reported, PyInt(batch_size)).s[1]

\* inserted = result.get("inserted", len(batch))
Inserted(reported, batch) == Get(reported, PyInt(Len(batch))).s[1]

\* Slip: a batch that was refused is skipped and the loop goes on.
RecvUpsertSkipsRefused ==
    /\ pc["store"] = "await_upsert"
    /\ \/ /\ TransportFails("upsert")
          /\ UNCHANGED <<i, total_inserted, accepted, reportedTotal, anyCount>>
       \/ \E code \in HttpCodes :
            \/ /\ ~IsSuccess(code)
               /\ resp' = Response("upsert", code, FALSE)
               /\ i' = i + batch_size
               /\ Goto("store", "upsert_loop")
               /\ UNCHANGED <<total_inserted, accepted, reportedTotal, anyCount>>
            \/ /\ IsSuccess(code)
               /\ resp' = Response("upsert", code, TRUE)
               /\ accepted' = accepted + 1
               /\ LET batch == Batch(documents, i)
                  IN  \E reported \in InsertedValues(Len(batch)) :
                        /\ total_inserted' = total_inserted + Inserted(reported, batch)
                        /\ reportedTotal' = reportedTotal +
                              (IF reported = Absent THEN Len(sent[Len(sent)]) ELSE reported.s[1])
                        /\ anyCount' = (anyCount \/ reported # Absent)
               /\ i' = i + batch_size
               /\ Goto("store", "upsert_loop")
    /\ UNCHANGED <<reqs, documents, sent, storeOut, convertVars, planVars, chunkVars, queryVars>>

\* response.raise_for_status(); inserted = result.get("inserted", len(batch));
\* total_inserted += inserted; the loop moves to the next i.
RecvUpsert ==
    /\ pc["store"] = "await_upsert"
    /\ \/ /\ TransportFails("upsert")
          /\ UNCHANGED <<i, total_inserted, accepted, reportedTotal, anyCount>>
       \/ \E code \in HttpCodes :
            \/ /\ RaisesForStatus("upsert", code)
               /\ UNCHANGED <<i, total_inserted, accepted, reportedTotal, anyCount>>
            \/ /\ IsSuccess(code)
               /\ resp' = Response("upsert", code, TRUE)
               /\ accepted' = accepted + 1
               /\ LET batch == Batch(documents, i)
                  IN  \E reported \in InsertedValues(Len(batch)) :
                        /\ total_inserted' = total_inserted + Inserted(reported, batch)
                        /\ reportedTotal' = reportedTotal +
                              (IF reported = Absent THEN Len(sent[Len(sent)]) ELSE reported.s[1])
                        /\ anyCount' = (anyCount \/ reported # Absent)
               /\ i' = i + batch_size
               /\ Goto("store", "upsert_loop")
    /\ UNCHANGED <<reqs, documents, sent, storeOut, convertVars, planVars, chunkVars, queryVars>>

\* The range is exhausted: return total_inserted.
StoreReturn ==
    /\ pc["store"] = "upsert_loop"
    /\ i >= Len(documents)
    /\ storeOut' = PyInt(total_inserted)
    /\ Goto("store", "succeeded")
    /\ UNCHANGED <<reqs, resp, documents, i, total_inserted, sent, accepted,
                   reportedTotal, anyCount, convertVars, planVars, chunkVars, queryVars>>

StoreStep == Prepare \/ SendUpsert \/ RecvUpsert \/ StoreReturn

(***************************************************************************)
(* test_query                                                              *)
(***************************************************************************)
top_k == 5

\* The hits of a search response: n scored snippets.
HitList(n) == [k \in 1..n |-> [score |-> PyInt(n - k), text |-> PyStr(<<k>>)]]

\* httpx.post(f"{gateway_url}/search", json={"query", "collection", "top_k"})
SendSearch ==
    /\ Send("search", "search")
    /\ searchSent' = [top_k |-> top_k]
    /\ UNCHANGED <<resp, hits, queryOut, convertVars, planVars, chunkVars, storeVars>>

\* response.raise_for_status(); hits = result.get("hits", []);
\* one report entry per hit; return the report.
RecvSearch ==
    /\ pc["query"] = "await_search"
    /\ \/ /\ TransportFails("search")
          /\ UNCHANGED <<hits, queryOut>>
       \/ \E code \in HttpCodes :
            \/ /\ RaisesForStatus("search", code)
               /\ UNCHANGED <<hits, queryOut>>
            \/ /\ IsSuccess(code)
               /\ resp' = Response("search", code, TRUE)
               /\ \E n \in 0..MaxHits, has_hits \in BOOLEAN :
                    hits' = IF has_hits THEN HitList(n) ELSE <<>>
               /\ queryOut' = PyInt(Len(hits'))
               /\ Goto("query", "succeeded")
    /\ UNCHANGED <<reqs, searchSent, convertVars, planVars, chunkVars, storeVars>>

QueryStep == SendSearch \/ RecvSearch

(***************************************************************************)
(* The run.                                                                *)
(***************************************************************************)
Schedule == \E s \in Stages : StartStage(s)

Next == Schedule \/ ConvertStep \/ PlanStep \/ ChunkStep \/ StoreStep \/ QueryStep

Spec == Init /\ [][Next]_vars

(***************************************************************************)
(* Runs whose converted text is about as long as the plan sample: the      *)
(* state in which convert_document has returned such a text, and the plan  *)
(* and chunk stages that consume it.                                       *)
(***************************************************************************)
\* How far below and above sample_limit the lengths of the texts go.
LongSpread == 5

\* A text of n characters that differ from place to place.
TextOf(n, p) == [k \in 1..n |-> (k * p) % 11]

LongLengths == {0, 1} \cup ((sample_limit - LongSpread)..(sample_limit + LongSpread))

InitLong ==
    /\ \E n \in LongLengths, p \in {1, 3} :
          /\ convOut = PyStr(TextOf(n, p))
          /\ mdArtifact = PyStr(TextOf(n, p))
    /\ pc = [s \in Stages |-> IF s = "convert" THEN "succeeded" ELSE "pending"]
    /\ err = [s \in Stages |-> "none"]
    /\ reqs = [k \in Kinds \ {"status"} |->
                 IF k \in {"download", "submit", "result"} THEN 1 ELSE 0]
    /\ resp = Response("result", 200, TRUE)
    /\ elapsed = 0
    /\ status = NoStatus
    /\ nStatusReq = 0
    /\ nStillRunning = 0
    /\ readNon2xx = FALSE
    /\ result = Unset
    /\ planOut = Unset
    /\ planSent = Unset
    /\ chunkSent = Unset
    /\ chunksArtifact = <<>>
    /\ chunkOut = Unset
    /\ documents = <<>>
    /\ i = 0
    /\ total_inserted = 0
    /\ sent = <<>>
    /\ accepted = 0
    /\ reportedTotal = 0
    /\ anyCount = FALSE
    /\ storeOut = Unset
    /\ searchSent = Unset
    /\ hits = <<>>
    /\ queryOut = Unset

NextLong == (\E s \in {"plan", "chunk"} : StartStage(s)) \/ PlanStep \/ ChunkStep

SpecLong == InitLong /\ [][NextLong]_vars

\* The backend runs every task that can start, a running component takes its
\* next step, and every request is answered or times out.
FairSpec == Spec /\ WF_vars(Next)

(***************************************************************************)
(* Properties.                                                             *)
(***************************************************************************)
CeilDiv(n, b) == (n + b - 1) \div b

RECURSIVE Flatten(_)
Flatten(seqs) == IF seqs = <<>> THEN <<>> ELSE Head(seqs) \o Flatten(Tail(seqs))

\* The order of the stages in a run.
Order == [convert |-> 1, plan |-> 2, chunk |-> 3, store |-> 4, query |-> 5]

AnyFailed == \E s \in Stages : pc[s] = "failed"

\* C1: when embed_and_store has returned (every upsert succeeded), it has
\* issued exactly ceil(N / batch_size) upsert requests for the N chunks, each
\* batch holds between 1 and batch_size documents, and the batches
\* concatenated in request order are the documents of the chunks, one per
\* chunk, in the chunks' order.
C1_BatchesPartitionChunks ==
    pc["store"] = "succeeded" =>
        LET N == Len(chunksArtifact)
            all == Flatten(sent)
        IN  /\ reqs["upsert"] = CeilDiv(N, batch_size)
            /\ Len(sent) = CeilDiv(N, batch_size)
            /\ \A b \in 1..Len(sent) : Len(sent[b]) >= 1 /\ Len(sent[b]) <= batch_size
            /\ Len(all) = N
            /\ \A k \in 1..N : all[k] = ToDocument(chunksArtifact[k])

\* A store of more than two full batches has returned.
C1_Witness ==
    /\ pc["store"] = "succeeded"
    /\ Len(chunksArtifact) > 2 * batch_size
    /\ Len(sent) = 3

\* C2: test_query has started, or its search request has been issued, only
\* in states where embed_and_store has returned after its last upsert batch
\* was accepted.
C2_QueryAfterStore ==
    (pc["query"] # "pending" \/ reqs["search"] > 0 \/ searchSent # Unset) =>
        /\ pc["store"] = "succeeded"
        /\ storeOut # Unset
        /\ Len(sent) = CeilDiv(Len(chunksArtifact), batch_size)
        /\ resp.kind \in {"upsert", "search"} \/ chunksArtifact = <<>>

\* The search request is in flight after a store of three batches.
C2_Witness ==
    /\ pc["query"] = "await_search"
    /\ reqs["upsert"] = 3

\* C3: a stage has started only if every stage whose output it consumes has
\* succeeded, and generate_plan and chunk_text never run at the same time.
C3_StartsAfterProducers ==
    /\ pc["plan"] # "pending" => pc["convert"] = "succeeded" /\ convOut # Unset
    /\ pc["chunk"] # "pending" =>
          /\ pc["convert"] = "succeeded" /\ convOut # Unset
          /\ pc["plan"] = "succeeded" /\ planOut # Unset
    /\ pc["store"] # "pending" => pc["chunk"] = "succeeded" /\ chunkOut # Unset
    /\ ~(Running("plan") /\ Running("chunk"))

\* The chunk request is in flight, carrying the outputs of convert and plan.
C3_Witness ==
    /\ pc["chunk"] = "await_chunk"
    /\ chunkSent = [text |-> convOut, plan |-> planOut]
    /\ planOut = PyDict(<<1>>)

\* C4: once a stage has failed, every stage ordered after it is still
\* pending and has issued no request (no search request after a failure of
\* convert, plan, chunk or store), and nothing at all happens in the run any
\* more: no later stage, no fallback, no compensating step.
C4_FailureStopsRun ==
    /\ [](\A s \in Stages : pc[s] = "failed" =>
            /\ err[s] # "none"
            /\ \A t \in Stages : Order[t] > Order[s] => pc[t] = "pending"
            /\ \A k \in Kinds \ {"status"} :
                  Order[StageOf[k]] > Order[s] => reqs[k] = 0)
    /\ [][AnyFailed => UNCHANGED vars]_vars

\* The store failed in its second batch and the query is still pending.
C4_Witness ==
    /\ pc["store"] = "failed"
    /\ reqs["upsert"] = 2
    /\ pc["query"] = "pending"
    /\ reqs["search"] = 0

\* convert_document has left its wait loop (by break or by an exception).
AfterLoop == pc["convert"] \in {"fetch", "await_result", "extract", "failed"} /\ nStatusReq > 0

\* C5: when the wait loop was ended by "success" after k-1 statuses that
\* were neither "success" nor "failure", exactly k status requests were
\* issued, none is issued afterwards, and the result is requested exactly
\* once.
C5_PollsThenOneFetch ==
    /\ [](pc["convert"] \in {"fetch", "await_result", "extract"} =>
            /\ status = "success"
            /\ nStatusReq = nStillRunning + 1
            /\ reqs["result"] = IF pc["convert"] = "fetch" THEN 0 ELSE 1)
    /\ [](pc["convert"] = "succeeded" => reqs["result"] = 1)
    /\ [][status = "success" =>
            \/ nStatusReq' = nStatusReq /\ status' = status
            \/ pc'["convert"] = "succeeded" /\ nStatusReq' = 0]_vars

\* The polls were answered "pending", "pending", "success" and the result
\* request is in flight.
C5_Witness ==
    /\ pc["convert"] = "await_result"
    /\ status = "success"
    /\ nStillRunning = 2
    /\ nStatusReq = 3
    /\ reqs["result"] = 1

\* C6: as soon as a status poll has returned "failure", convert_document has
\* failed with the conversion-failed error, and from then on no status
\* request is issued, no time is slept, no result is requested and no
\* artifact is written.
C6_FailureAbortsAtOnce ==
    /\ [](status = "failure" <=> err["convert"] = "ConversionFailed")
    /\ [](status = "failure" =>
            /\ pc["convert"] = "failed"
            /\ resp.kind = "status"
            /\ reqs["result"] = 0
            /\ mdArtifact = Unset
            /\ convOut = Unset)
    /\ [][status' = "failure" /\ status # "failure" =>
            pc["convert"] = "await_status" /\ nStatusReq' = nStatusReq]_vars
    /\ [][status = "failure" => UNCHANGED vars]_vars

\* The polls were answered "pending", "failure".
C6_Witness ==
    /\ err["convert"] = "ConversionFailed"
    /\ nStatusReq = 2
    /\ nStillRunning = 1
    /\ elapsed >= poll_interval

\* C7 as stated: the wait loop has ended within max_wait + poll_interval of
\* the start of polling, whatever the outcome and however long the status
\* requests took (every status response being 2xx).
C7_Original == (AfterLoop /\ ~readNon2xx) => elapsed <= max_wait + poll_interval

\* C7 (amended): status requests taking at most poll_timeout each, the wait
\* loop is never past, and ends before, max_wait + poll_timeout +
\* poll_interval from the start of polling, whatever the outcome.
C7_EndsWithinBudgetAndOnePoll ==
    /\ elapsed < max_wait + poll_timeout + poll_interval
    /\ pc["convert"] = "await_status" => elapsed < max_wait
    /\ pc["convert"] = "sleep" => elapsed < max_wait + poll_timeout

\* The loop ended by timeout later than max_wait + poll_interval.
C7_Witness ==
    /\ AfterLoop
    /\ err["convert"] = "ConversionTimeout"
    /\ elapsed > max_wait + poll_interval

\* C8 as stated: when the loop has ended, every poll was answered 2xx with a
\* status, and none returned "success" or "failure" before max_wait had elapsed, convert_document failed with the
\* timeout error and requested no result.
C8_Original ==
    (/\ AfterLoop
     /\ ~readNon2xx
     /\ resp.kind = "status"
     /\ resp.read
     /\ ~(status \in TerminalStatuses /\ elapsed < max_wait))
    => (err["convert"] = "ConversionTimeout" /\ reqs["result"] = 0)

\* C8 (amended): when the loop has ended and every status poll that was
\* started returned a status other than "success" and "failure",
\* max_wait has elapsed, convert_document has failed with the timeout error,
\* no result was requested, no artifact written, and no other stage started.
C8_TimeoutWhenNoPollEnds ==
    (AfterLoop /\ nStillRunning = nStatusReq) =>
        /\ pc["convert"] = "failed"
        /\ err["convert"] = "ConversionTimeout"
        /\ elapsed >= max_wait
        /\ reqs["result"] = 0
        /\ mdArtifact = Unset
        /\ \A s \in Stages \ {"convert"} : pc[s] = "pending"

\* The loop timed out after max_wait / poll_interval polls.
C8_Witness ==
    /\ pc["convert"] = "failed"
    /\ err["convert"] = "ConversionTimeout"
    /\ nStillRunning = nStatusReq
    /\ nStatusReq * poll_interval = max_wait

\* C9: a status read from a poll that is neither "success" nor "failure"
\* does not end convert_document: it sleeps one poll interval, tests the
\* budget and, the budget not being used up, polls again.
C9_OtherStatusKeepsPolling ==
    /\ [][(/\ pc["convert"] = "await_status"
           /\ pc'["convert"] # "await_status"
           /\ resp'.read
           /\ status' \notin TerminalStatuses)
          => (pc'["convert"] = "sleep" /\ err' = err)]_vars
    /\ [][pc["convert"] = "sleep" =>
            /\ pc'["convert"] = "loop"
            /\ elapsed' = elapsed + poll_interval
            /\ err' = err]_vars
    /\ [][pc["convert"] = "loop" /\ elapsed < max_wait =>
            /\ pc'["convert"] = "await_status"
            /\ nStatusReq' = nStatusReq + 1]_vars

\* A poll is in flight after polls answered with an unrecognised status, with
\* no task_status at all, and with "pending".
C9_Witness ==
    /\ pc["convert"] = "await_status"
    /\ status \in {"started", "unknown"}
    /\ nStillRunning >= 3
    /\ nStatusReq = nStillRunning + 1

\* C10: a response that is not 2xx is never read as a normal response, and
\* the stage that received it has failed with the remote-service error.
C10_NonSuccessAborts ==
    (resp.code # 0 /\ ~IsSuccess(resp.code)) =>
        /\ ~resp.read
        /\ pc[StageOf[resp.kind]] = "failed"
        /\ err[StageOf[resp.kind]] = "RemoteServiceError"

\* The b-th batch of the documents of embed_and_store.
NthBatch(b) == SubSeq(documents, (b - 1) * batch_size + 1,
                      IF b * batch_size < Len(documents) THEN b * batch_size ELSE Len(documents))

\* C11: when the request for batch k is refused or its transport fails,
\* embed_and_store fails in that step; then exactly k upsert requests have
\* been issued (batches 1..k), the gateway has accepted batches 1..k-1, no
\* total is returned, and from then on no batch is sent and nothing the
\* gateway accepted is taken back.
C11_FailFastKeepsWritten ==
    /\ [](pc["store"] = "failed" =>
            LET k == reqs["upsert"]
            IN  /\ k >= 1 /\ k <= CeilDiv(Len(documents), batch_size)
                /\ Len(sent) = k
                /\ \A b \in 1..k : sent[b] = NthBatch(b)
                /\ accepted = k - 1
                /\ storeOut = Unset
                /\ err["store"] \in {"TransportError", "RemoteServiceError"}
                /\ resp.kind = "upsert" /\ ~resp.read)
    /\ [][(/\ pc["store"] = "await_upsert"
           /\ pc'["store"] # "await_upsert"
           /\ ~IsSuccess(resp'.code))
          => (pc'["store"] = "failed" /\ accepted' = accepted /\ storeOut' = Unset)]_vars
    /\ [][pc["store"] = "failed" => UNCHANGED <<reqs, sent, accepted, storeOut>>]_vars

\* The third of three batches failed after two were accepted.
C11_Witness ==
    /\ pc["store"] = "failed"
    /\ reqs["upsert"] = 3
    /\ accepted = 2
    /\ CeilDiv(Len(documents), batch_size) = 3

\* C12: the total embed_and_store returns is the sum over its batches of the
\* count the gateway reported, a batch whose response has no count counting
\* its documents; when no response had a count the total is the number of
\* chunks.
C12_TotalIsSumOfReported ==
    pc["store"] = "succeeded" =>
        /\ storeOut = PyInt(reportedTotal)
        /\ ~anyCount => storeOut = PyInt(Len(chunksArtifact))

\* Three batches were stored and the counts reported add up to fewer than
\* the chunks.
C12_Witness ==
    /\ pc["store"] = "succeeded"
    /\ accepted = 3
    /\ anyCount
    /\ storeOut = PyInt(Len(chunksArtifact) - 2)

\* C13: at most one upsert request is unanswered at any time, the batches
\* leave in document order, and a batch leaves only when every batch before
\* it has been answered 2xx and accepted.
C13_OneBatchAtATime ==
    /\ [](/\ Len(sent) = reqs["upsert"]
          /\ Len(sent) - accepted \in {0, 1}
          /\ (Len(sent) - accepted = 1) <=> (pc["store"] \in {"await_upsert", "failed"})
          /\ \A b \in 1..Len(sent) : sent[b] = NthBatch(b))
    /\ [][Len(sent') # Len(sent) =>
            /\ Len(sent') = Len(sent) + 1
            /\ pc["store"] = "upsert_loop"
            /\ accepted = Len(sent)
            /\ Len(sent) > 0 =>
                  resp.kind = "upsert" /\ IsSuccess(resp.code) /\ resp.read]_vars

\* The second batch is in flight after the first was accepted.
C13_Witness ==
    /\ pc["store"] = "await_upsert"
    /\ Len(sent) = 2
    /\ accepted = 1

\* The payloads C14 speaks of: a JSON object whose document, if any, is an object.
PayloadInScope(r) == r.isdict /\ r.document \in {"absent", "dict"}

\* The candidate fields of a payload in the order md, markdown, content,
\* document.md.
Candidates(r) ==
    <<r.md, r.markdown, r.content,
      IF r.document = "dict" THEN r.document_md ELSE Absent>>

NonEmptyText(v) == v.t = "str" /\ v.s # <<>>

\* The first non-empty candidate, or the empty string when there is none.
FirstNonEmpty(r) ==
    LET c == Candidates(r)
        found == {k \in 1..Len(c) : NonEmptyText(c[k])}
    IN  IF found = {} THEN PyStr(<<>>)
        ELSE c[CHOOSE k \in found : \A j \in found : k <= j]

\* C14: for every result payload whose candidate fields are absent, empty,
\* null or text, convert_document raises nothing after the result was read
\* and returns the first non-empty candidate in the order md, markdown,
\* content, document.md, or the empty string when there is none.
C14_FirstNonEmptyOrEmpty ==
    /\ []((/\ pc["convert"] = "failed"
           /\ resp.kind = "result"
           /\ resp.read
           /\ ~readNon2xx)
          => ~PayloadInScope(result))
    /\ [][(/\ pc["convert"] = "extract"
           /\ pc'["convert"] # "extract"
           /\ PayloadInScope(result))
          => (pc'["convert"] = "succeeded" /\ convOut' = FirstNonEmpty(result))]_vars

\* The requests a component issues once in a call.
SingleKinds == {"download", "submit", "result", "plan", "chunk", "search"}

\* C15: nothing is retried: a stage that has left "pending" never returns to
\* it nor to its entry, a stage that has ended stays as it ended, each of the
\* download, submit, result, plan, chunk and search requests is issued at
\* most once in a run, an ended request is not followed by another of its
\* kind (status polls and upsert batches apart), and the upsert requests are
\* the first batches of the documents, one request each.
C15_NothingIsRetried ==
    /\ [](/\ \A k \in SingleKinds : reqs[k] <= 1
          /\ reqs["upsert"] <= CeilDiv(Len(documents), batch_size)
          /\ Len(sent) = reqs["upsert"]
          /\ \A b \in 1..Len(sent) : sent[b] = NthBatch(b))
    /\ [][\A s \in Stages :
            /\ pc[s] # "pending" => pc'[s] # "pending"
            /\ pc[s] \in {"succeeded", "failed"} => pc'[s] = pc[s]
            /\ (pc'[s] = Entry[s] /\ pc[s] # Entry[s]) => pc[s] = "pending"]_vars
    /\ [][\A k \in SingleKinds :
            pc[StageOf[k]] = AwaitPos[k] => pc'[StageOf[k]] # SendPos[k]]_vars

\* A run in which a transport failure ended the search after every other
\* request, three upsert batches among them, had been issued once.
C15_Witness ==
    /\ pc["query"] = "failed"
    /\ err["query"] = "TransportError"
    /\ \A k \in SingleKinds : reqs[k] = 1
    /\ reqs["upsert"] = 3

AllSucceeded == \A s \in Stages : pc[s] = "succeeded"

\* The run has ended: all five stages completed, or a stage failed.
Terminal == AllSucceeded \/ AnyFailed

\* C16: every run reaches a terminal state; in a terminal state either all
\* five stages have completed, each having been started once and having
\* produced its output, or exactly one stage has failed; a stage that has
\* ended stays as it ended and a terminal run starts no stage.
C16_RunTerminates ==
    /\ <>Terminal
    /\ [](Cardinality({s \in Stages : pc[s] = "failed"}) <= 1)
    /\ [](AllSucceeded =>
            /\ ~AnyFailed
            /\ \A k \in SingleKinds : reqs[k] = 1
            /\ convOut # Unset /\ planOut # Unset /\ chunkOut # Unset
            /\ storeOut # Unset /\ queryOut # Unset)
    /\ [][Terminal => \A s \in Stages : pc'[s] = pc[s]]_vars

\* All five stages have completed.
C16_Witness ==
    /\ AllSucceeded
    /\ reqs["upsert"] = 2
    /\ queryOut # Unset

\* C17: the text generate_plan transmits is the prefix of its input of
\* length min(len, sample_limit): the first sample_limit characters of a
\* longer text, and a text of at most sample_limit characters unchanged.
C17_PlanSendsPrefix ==
    planSent # Unset =>
        LET n == Len(convOut.s)
            m == Min(n, sample_limit)
        IN  /\ planSent.text.t = "str"
            /\ Len(planSent.text.s) = m
            /\ planSent.text.s = SubSeq(convOut.s, 1, m)
            /\ n <= sample_limit => planSent.text = convOut

\* The plan request carries the first sample_limit characters of a longer text.
C17_Witness ==
    /\ pc["plan"] = "await_plan"
    /\ Len(convOut.s) > sample_limit
    /\ Len(planSent.text.s) = sample_limit
    /\ planSent.text # convOut

\* C18: the chunk request carries the plan generate_plan returned and the
\* whole text convert_document returned, which for a text longer than
\* sample_limit is not the sample the plan request carried; the converted
\* text and its artifact are as convert_document left them.
C18_ChunkSendsOutputsUnmodified ==
    chunkSent # Unset =>
        /\ chunkSent.plan = planOut
        /\ chunkSent.text = convOut
        /\ convOut = mdArtifact
        /\ Len(chunkSent.text.s) > sample_limit => chunkSent.text # planSent.text

\* The chunk request carries a text longer than the sample and a plan.
C18_Witness ==
    /\ pc["chunk"] = "await_chunk"
    /\ Len(chunkSent.text.s) = sample_limit + 1
    /\ Len(planSent.text.s) = sample_limit
    /\ chunkSent.plan = PyDict(<<1>>)

\* C19: when test_query has returned, its report lists no more hits than
\* the top_k it asked for, whatever number of hits the response carried.
C19_HitsWithinTopK ==
    pc["query"] = "succeeded" =>
        /\ queryOut.s[1] <= searchSent.top_k
        /\ Len(hits) <= searchSent.top_k

\* C20: the budget is tested only before a status request leaves.  The first
\* test finds the budget unused, so a status request precedes every outcome
\* of the wait; a poll that reads "success" goes on to the result request
\* whatever the time is when it is read, and from there nothing but the
\* result request happens; the timeout is raised only by the loop test, the
\* last poll having read a status that is neither "success" nor "failure";
\* and the outcomes exclude each other.
C20_BudgetTestedOnlyBeforePoll ==
    /\ []((pc["convert"] = "loop" /\ nStatusReq = 0) => WithinBudget(elapsed))
    /\ []((\/ pc["convert"] \in {"fetch", "await_result", "extract"}
           \/ err["convert"] \in {"ConversionTimeout", "ConversionFailed"})
          => nStatusReq >= 1)
    /\ [][(/\ pc["convert"] = "await_status"
           /\ pc'["convert"] # "await_status"
           /\ resp'.read
           /\ status' = "success")
          => (pc'["convert"] = "fetch" /\ err' = err)]_vars
    /\ [][pc["convert"] = "fetch" =>
            /\ pc'["convert"] = "await_result"
            /\ reqs'["result"] = 1
            /\ err' = err]_vars
    /\ [][(err'["convert"] = "ConversionTimeout" /\ err["convert"] # "ConversionTimeout")
          => /\ pc["convert"] = "loop"
             /\ ~WithinBudget(elapsed)
             /\ resp.kind = "status"
             /\ resp.read
             /\ status # NoStatus
             /\ status \notin TerminalStatuses]_vars
    /\ [](err["convert"] = "ConversionTimeout" =>
            (reqs["result"] = 0 /\ status \notin TerminalStatuses))
    /\ [](err["convert"] = "ConversionFailed" =>
            (reqs["result"] = 0 /\ status = "failure"))
    /\ []((reqs["result"] = 1 /\ pc["convert"] # "succeeded") => status = "success")

\* The result is requested although the poll that read "success" ended
\* after the budget was used up.
C20_Witness ==
    /\ pc["convert"] = "await_result"
    /\ status = "success"
    /\ elapsed > max_wait
    /\ reqs["result"] = 1

====
